---- MODULE Spec2Model ----
(***************************************************************************)
(* Model of the i18n message catalog of RockyRori/AdoLib                   *)
(* (src/i18n/i18n.go): RegisterI18n with recGetMessages and                *)
(* checkLanguageMap, and Translate with its sync.Once compile guard.       *)
(*                                                                         *)
(* Go strings are sequences of one-character strings, so that              *)
(* strings.Split, strings.Contains, the dot-join of message ids and the    *)
(* template parser are computed, not assumed.                              *)
(***************************************************************************)
EXTENDS Integers, Sequences, FiniteSets, Bags, TLC

(***************************************************************************)
(* Bounds of the model.                                                    *)
(***************************************************************************)
\* number of goroutines that may be inside Translate at the same time
MaxCallers == 2
\* number of entries of a locale directory
MaxDirLen == 2
\* number of RegisterI18n invocations in one process
MaxRegister == 2

\* number of RegisterI18n invocations in the behaviours checked for progress
MaxRegisterFair == 1

(***************************************************************************)
(* Strings.                                                                *)
(***************************************************************************)
\* var leftDelim = "{{"
leftDelim == <<"{", "{">>

\* text/template's default right delimiter
rightDelim == <<"}", "}">>

\* what text/template prints for a map key that is absent (missingkey=default)
noValue == <<"<", "n", "o", " ", "v", "a", "l", "u", "e", ">">>

\* the least j >= i at which sub occurs in s, 0 when there is none
RECURSIVE IndexFrom(_, _, _)
IndexFrom(s, sub, i) ==
    IF i + Len(sub) - 1 > Len(s) THEN 0
    ELSE IF SubSeq(s, i, i + Len(sub) - 1) = sub THEN i
    ELSE IndexFrom(s, sub, i + 1)

\* strings.Contains(s, sub)
Contains(s, sub) == IndexFrom(s, sub, 1) # 0

\* strings.Split(s, sep) for a one-character separator
RECURSIVE Split(_, _)
Split(s, sep) ==
    LET i == IndexFrom(s, <<sep>>, 1)
    IN  IF i = 0 THEN <<s>>
        ELSE <<SubSeq(s, 1, i - 1)>> \o Split(SubSeq(s, i + 1, Len(s)), sep)

\* s without its leading and trailing spaces
RECURSIVE TrimSpace(_)
TrimSpace(s) ==
    IF s = <<>> THEN s
    ELSE IF Head(s) = " " THEN TrimSpace(Tail(s))
    ELSE IF s[Len(s)] = " " THEN TrimSpace(SubSeq(s, 1, Len(s) - 1))
    ELSE s

\* the characters that cannot be part of a template identifier
NonIdentChars == {"{", "}", ".", " ", "<", ">", "-", ","}

IsIdent(s) == s # <<>> /\ \A i \in 1..Len(s) : s[i] \notin NonIdentChars

(***************************************************************************)
(* text/template, for the fragment "text and {{.Field.Field...}} actions". *)
(* A parsed template is a sequence of nodes; NilTemplate is the nil        *)
(* *Template of a Message that was never compiled.                         *)
(***************************************************************************)
NilTemplate == [nil |-> TRUE, nodes |-> <<>>]

TextNode(s) == [t |-> "text", s |-> s, chain |-> <<>>]

FieldNode(chain) == [t |-> "field", s |-> <<>>, chain |-> chain]

\* the field chain of the action text between the delimiters, <<>> when the
\* text is no field chain (empty action, stray braces, ...)
ParseAction(content) ==
    LET parts == Split(TrimSpace(content), ".")
    IN  IF /\ Len(parts) >= 2
           /\ parts[1] = <<>>
           /\ \A i \in 2..Len(parts) : IsIdent(parts[i])
        THEN Tail(parts)
        ELSE <<>>

\* gotemplate.New("").Parse(s) from position i on: [err, nodes]
RECURSIVE ParseText(_, _)
ParseText(s, i) ==
    IF i > Len(s) THEN [err |-> FALSE, nodes |-> <<>>]
    ELSE
      LET l == IndexFrom(s, leftDelim, i)
      IN  IF l = 0
          THEN [err |-> FALSE, nodes |-> <<TextNode(SubSeq(s, i, Len(s)))>>]
          ELSE
            LET r == IndexFrom(s, rightDelim, l + 2)
            IN  IF r = 0
                THEN [err |-> TRUE, nodes |-> <<>>]     \* unclosed action
                ELSE
                  LET chain == ParseAction(SubSeq(s, l + 2, r - 1))
                      rest  == ParseText(s, r + 2)
                      text  == IF l > i THEN <<TextNode(SubSeq(s, i, l - 1))>>
                               ELSE <<>>
                  IN  IF chain = <<>> \/ rest.err
                      THEN [err |-> TRUE, nodes |-> <<>>]
                      ELSE [err |-> FALSE,
                            nodes |-> text \o <<FieldNode(chain)>> \o rest.nodes]

\* message.parsedTemplate, err = gotemplate.New("").Parse(message.Data)
Parse(s) ==
    LET p == ParseText(s, 1)
    IN  IF p.err THEN [err |-> TRUE, tmpl |-> NilTemplate]
        ELSE [err |-> FALSE, tmpl |-> [nil |-> FALSE, nodes |-> p.nodes]]

(***************************************************************************)
(* Template data: a map[string]interface{} whose values are strings, or    *)
(* the nil map.                                                            *)
(***************************************************************************)
NilData == [isNil |-> TRUE, m |-> <<>>]

EmptyData == [isNil |-> FALSE, m |-> <<>>]

sName == <<"N", "a", "m", "e">>

sAna == <<"A", "n", "a">>

AnaData == [isNil |-> FALSE, m |-> (sName :> sAna)]

DataPool == {NilData, EmptyData, AnaData}

\* an evaluation that prints nothing for an absent key
EvalFieldEmpty(chain, data) ==
    IF Len(chain) > 1 THEN [err |-> TRUE, out |-> <<>>]
    ELSE IF chain[1] \in DOMAIN data.m
         THEN [err |-> FALSE, out |-> data.m[chain[1]]]
         ELSE [err |-> FALSE, out |-> <<>>]

\* the evaluation of one field chain against the data: a one-field chain
\* prints the value of the key, or "<no value>" when the key is absent (also
\* in the nil map); a longer chain fails, on a string value ("can't evaluate
\* field") as on an absent key ("nil pointer evaluating interface {}")
EvalField(chain, data) ==
    IF Len(chain) > 1 THEN [err |-> TRUE, out |-> <<>>]
    ELSE IF chain[1] \in DOMAIN data.m
         THEN [err |-> FALSE, out |-> data.m[chain[1]]]
         ELSE [err |-> FALSE, out |-> noValue]

\* parsedTemplate.Execute(&buf, templateDate) from node i on: [err, out]
RECURSIVE ExecNodes(_, _, _)
ExecNodes(nodes, i, data) ==
    IF i > Len(nodes) THEN [err |-> FALSE, out |-> <<>>]
    ELSE
      LET n    == nodes[i]
          here == IF n.t = "text" THEN [err |-> FALSE, out |-> n.s]
                  ELSE EvalField(n.chain, data)
          rest == ExecNodes(nodes, i + 1, data)
      IN  IF here.err \/ rest.err THEN [err |-> TRUE, out |-> <<>>]
          ELSE [err |-> FALSE, out |-> here.out \o rest.out]

Execute(tmpl, data) == ExecNodes(tmpl.nodes, 1, data)

(***************************************************************************)
(* language.MustParse, for tags "language" and "language-REGION".          *)
(***************************************************************************)
Alpha ==
    {"a", "b", "c", "d", "e", "f", "g", "h", "i", "j", "k", "l", "m",
     "n", "o", "p", "q", "r", "s", "t", "u", "v", "w", "x", "y", "z",
     "A", "B", "C", "D", "E", "F", "G", "H", "I", "J", "K", "L", "M",
     "N", "O", "P", "Q", "R", "S", "T", "U", "V", "W", "X", "Y", "Z"}

IsAlpha(s) == \A i \in 1..Len(s) : s[i] \in Alpha

\* a parse that accepts every tag
ValidTagAny(tag) == TRUE

\* whether language.MustParse(tag) returns (it panics otherwise)
ValidTag(tag) ==
    LET parts == Split(tag, "-")
    IN  /\ Len(parts) \in {1, 2}
        /\ Len(parts[1]) \in {2, 3} /\ IsAlpha(parts[1])
        /\ Len(parts) = 2 => (Len(parts[2]) = 2 /\ IsAlpha(parts[2]))

(***************************************************************************)
(* Parsed TOML values: a string, a table (map[string]interface{}), or a    *)
(* value of another type (int64, bool, array, time).                       *)
(***************************************************************************)
Str(s) == [t |-> "str", s |-> s, m |-> <<>>]

Map(m) == [t |-> "map", s |-> <<>>, m |-> m]

Other(kind) == [t |-> kind, s |-> <<>>, m |-> <<>>]

(***************************************************************************)
(* The locale tags, message ids and message texts of the modelled files.   *)
(***************************************************************************)
\* the empty string
sEmpty == << >>

\* the empty table
EmptyMap == << >>

sEnUS == <<"e", "n", "-", "U", "S">>

sZhCN == <<"z", "h", "-", "C", "N">>

\* another spelling of en-US
sEnus == <<"e", "n", "-", "u", "s">>

idG == <<"G">>

idA == <<"A">>

idB == <<"B">>

idAB == <<"A", ".", "B">>

idC == <<"C">>

idD == <<"D">>

idK == <<"K">>

idN == <<"N">>

\* "Hello, {{.Name}}"
sHello == <<"H", "e", "l", "l", "o", ",", " ", "{", "{", ".", "N", "a", "m", "e", "}", "}">>

\* "Ni {{.Name}}"
sNi == <<"N", "i", " ", "{", "{", ".", "N", "a", "m", "e", "}", "}">>

\* "Hi {{.Missing}}"
sHi == <<"H", "i", " ", "{", "{", ".", "M", "i", "s", "s", "i", "n", "g", "}", "}">>

\* a text with braces and no delimiter
sBrace == <<"{", "x", "{">>

sOK == <<"O", "K">>

\* a template that does not parse: "{{.Name"
sBad == <<"{", "{", ".", "N", "a", "m", "e">>

\* a template that parses and whose execution fails: "{{.Name.X}}"
sChain == <<"{", "{", ".", "N", "a", "m", "e", ".", "X", "}", "}">>

(***************************************************************************)
(* The directory entries RegisterI18n may find: name, whether os.ReadFile  *)
(* and toml.Unmarshal succeed, and the parsed document.                    *)
(***************************************************************************)
File(name, status, raw) == [name |-> name, status |-> status, raw |-> raw]

\* in the order of os.ReadDir, which sorts by filename
Pool ==
    << File(<<"R", "E", "A", "D", "M", "E">>, "ok", Map(EmptyMap)),
       File(<<"a", ".", "b", ".", "e", "n", "-", "U", "S", ".", "t", "o", "m", "l">>, "ok", Map(EmptyMap)),
       File(<<"a", ".", "e", "n", "-", "U", "S", ".", "j", "s", "o", "n">>, "ok", Map(EmptyMap)),
       File(<<"a", ".", "e", "n", "-", "U", "S", ".", "t", "o", "m", "l">>, "ok",
            Map((idG :> Str(sHello)) @@ (idA :> Map(idB :> Str(sBrace))))),
       File(<<"a", ".", "e", "n", "-", "u", "s", ".", "t", "o", "m", "l">>, "ok", Map(idK :> Str(sOK))),
       File(<<"a", ".", "z", "h", "-", "C", "N", ".", "t", "o", "m", "l">>, "ok",
            Map((idG :> Str(sNi)) @@ (idA :> Map(idB :> Str(sOK))))),
       File(<<"b", ".", "e", "n", "-", "U", "S", ".", "t", "o", "m", "l">>, "ok", Map(idC :> Str(sHi))),
       File(<<"b", ".", "z", "h", "-", "C", "N", ".", "t", "o", "m", "l">>, "ok", Map(idD :> Str(sBad))),
       File(<<"b", "a", "d", ".", "t", "x", "t">>, "ok", Map(EmptyMap)),
       File(<<"c", ".", "e", "n", "-", "U", "S", ".", "t", "o", "m", "l">>, "ok",
            Map((idAB :> Str(sOK)) @@ (idA :> Map(idB :> Str(sBrace))))),
       File(<<"d", ".", "e", "n", "-", "U", "S", ".", "t", "o", "m", "l">>, "ok",
            Map((idA :> Map(idB :> Str(sEmpty))) @@ (idK :> Map(idN :> Other("int64")))
                @@ (idD :> Other("bool")) @@ (sEmpty :> Map(idB :> Str(sOK))))),
       File(<<"e", ".", "z", "h", "-", "C", "N", ".", "t", "o", "m", "l">>, "ok", Map(idC :> Str(sChain))),
       File(<<"f", ".", "e", ".", "t", "o", "m", "l">>, "ok", Map(EmptyMap)),
       File(<<"p", ".", "e", "n", "-", "U", "S", ".", "t", "o", "m", "l">>, "parseerr", Map(EmptyMap)),
       File(<<"r", ".", "e", "n", "-", "U", "S", ".", "t", "o", "m", "l">>, "readerr", Map(EmptyMap)),
       File(<<"x", ".", "g", "o">>, "ok", Map(EmptyMap)) >>

\* the i-th smallest element of a set of numbers
Nth(I, i) == CHOOSE n \in I : Cardinality({k \in I : k < n}) = i - 1

sGo == <<"g", "o">>

sToml == <<"t", "o", "m", "l">>

\* whether the loop over the entries ends the process at this entry whatever
\* the catalog holds: its name, its tag, its reading or its parsing fails
EndsLoop(f) ==
    LET s == Split(f.name, ".")
    IN  /\ ~(Len(s) = 2 /\ s[2] = sGo)
        /\ \/ Len(s) # 3
           \/ s[3] # sToml
           \/ ~ValidTag(s[2])
           \/ f.status # "ok"

\* the directories: the sorted selections of at most MaxDirLen entries. The
\* entries after one that ends the loop are never looked at, so such an
\* entry is the last one listed.
Dirs ==
    { [i \in 1..Cardinality(I) |-> Pool[Nth(I, i)]] :
        I \in {J \in SUBSET (1..Len(Pool)) :
                 /\ Cardinality(J) <= MaxDirLen
                 /\ \A j \in J : EndsLoop(Pool[j]) => \A k \in J : k <= j} }

LangPool == {sEnUS, sZhCN}

IdPool == {idG, idAB, idC, idD}

(***************************************************************************)
(* The state of the process.                                               *)
(***************************************************************************)
VARIABLES
    iLocalizer,   \* the catalog: locale -> message id -> Message
    exit,         \* whether the process runs, or how it ended (log.Fatalf, panic)
    regPc,        \* RegisterI18n: "idle", "loop" (between files), "walk", "done"
    fileInfos,    \* RegisterI18n: the directory entries (empty outside the call)
    fileIdx,      \* RegisterI18n: the index of the next entry
    lang,         \* RegisterI18n: the locale of the file being walked
    stack,        \* recGetMessages: the tables being ranged over, innermost first
    registered,   \* how many times RegisterI18n was invoked
    callers,      \* the bag of the Translate calls that goroutines are in
    loaded,       \* history: the (locale, document) pairs walked to the end
    visit,        \* history: the last key/value recGetMessages was called on
    parseCount,   \* history: how often each message's template was parsed
    atCall        \* history: the ids and texts the catalog held when the
                  \* RegisterI18n call in progress was made

vars == <<iLocalizer, exit, regPc, fileInfos, fileIdx, lang, stack, registered,
          callers, loaded, visit, parseCount, atCall>>

loaderVars ==
    <<regPc, fileInfos, fileIdx, lang, stack, registered, loaded, visit, atCall>>

\* type Message struct { Data; parseOnce; parsedTemplate }
NewMessage(data) ==
    [Data |-> data, parseOnce |-> "new", parsedTemplate |-> NilTemplate]

NoError ==
    [what |-> "", lang |-> sEmpty, ref |-> sEmpty, key |-> sEmpty,
     hasKey |-> FALSE, old |-> sEmpty, new |-> sEmpty]

\* an error that names no locale and no message id
Error(what) == [NoError EXCEPT !.what = what]

Running == exit.kind = "running"

\* log.Fatalf(...): the process ends
Fatalf(err) == exit' = [kind |-> "fatal", err |-> err]

\* an unrecovered panic: the process ends
Panic(err) == exit' = [kind |-> "panic", err |-> err]

NoVisit ==
    [t |-> "", lang |-> sEmpty, id |-> sEmpty, data |-> sEmpty, path |-> << >>,
     existed |-> FALSE, old |-> sEmpty]

Init ==
    /\ iLocalizer = << >>
    /\ exit = [kind |-> "running", err |-> NoError]
    /\ regPc = "idle"
    /\ fileInfos = << >>
    /\ fileIdx = 0
    /\ lang = sEmpty
    /\ stack = << >>
    /\ registered = 0
    /\ callers = EmptyBag
    /\ loaded = {}
    /\ visit = NoVisit
    /\ atCall = << >>
    /\ parseCount = << >>

(***************************************************************************)
(* recGetMessages.                                                         *)
(***************************************************************************)
\* one activation of recGetMessages on a table: the id prefix, the table and
\* the keys the range loop has not visited yet, and (history) the keys that
\* led to the table
Frame(messageId, path, m) ==
    [messageId |-> messageId, data |-> m, todo |-> DOMAIN m, path |-> path]

\* activations whose range loop is over return nil to their caller
RECURSIVE Unwind(_)
Unwind(st) ==
    IF st = << >> THEN st
    ELSE IF Head(st).todo = {} THEN Unwind(Tail(st))
    ELSE st

\* if messageId != "" { k = messageId + "." + k }
JoinId(messageId, k) ==
    IF messageId # sEmpty THEN messageId \o <<".">> \o k ELSE k

\* an insertion that replaces the table of the locale
InsertMessageReplacing(loc, l, messageId, data) ==
    [loc EXCEPT ![l] = (messageId :> NewMessage(data))]

\* iLocalizer[lang][messageId] = &Message{Data: data}
InsertMessage(loc, l, messageId, data) ==
    [loc EXCEPT ![l] = (messageId :> NewMessage(data)) @@ @]

\* whether the lookup iLocalizer[lang][messageId] finds a message
HasMessage(loc, l, messageId) == l \in DOMAIN loc /\ messageId \in DOMAIN loc[l]

\* case string without the test for the empty message
StringCaseNoEmptyTest(loc, l, messageId, data) ==
    IF HasMessage(loc, l, messageId)
    THEN [Error("duplicate") EXCEPT !.key = messageId, !.hasKey = TRUE,
                                    !.old = loc[l][messageId].Data, !.new = data]
    ELSE NoError

\* case string without the lookup of the old message
StringCaseNoLookup(loc, l, messageId, data) ==
    IF data = sEmpty
    THEN [Error("empty") EXCEPT !.key = messageId, !.hasKey = TRUE]
    ELSE NoError

\* case string: the error that ends the process before the message is
\* stored, NoError when it is stored
StringCase(loc, l, messageId, data) ==
    IF data = sEmpty
    THEN [Error("empty") EXCEPT !.key = messageId, !.hasKey = TRUE]
    ELSE IF HasMessage(loc, l, messageId)
    THEN [Error("duplicate") EXCEPT !.key = messageId, !.hasKey = TRUE,
                                    !.old = loc[l][messageId].Data, !.new = data]
    ELSE NoError

\* a default case that returns nil
DefaultCaseNil(raw) == NoError

\* default: return fmt.Errorf("unsupported data format %T: %v", raw, data)
DefaultCase(raw) == Error("unsupported")

\* recGetMessages(lang, k, v) for the key k the innermost range loop visits:
\* the error that ends the process (NoError when there is none), the catalog
\* and the activations afterwards
VisitKey(loc, l, st, k) ==
    LET top  == Head(st)
        v    == top.data[k]
        id   == JoinId(top.messageId, k)
        rest == <<[top EXCEPT !.todo = @ \ {k}]>> \o Tail(st)
        err  == CASE v.t = "str" -> StringCase(loc, l, id, v.s)
                  [] v.t = "map" -> NoError
                  [] OTHER -> DefaultCase(v)
    IN  IF err # NoError THEN [err |-> err, loc |-> loc, stack |-> st]
        ELSE CASE v.t = "str" ->
                    [err |-> NoError, loc |-> InsertMessage(loc, l, id, v.s),
                     stack |-> Unwind(rest)]
               [] v.t = "map" ->
                    [err |-> NoError, loc |-> loc,
                     stack |-> Unwind(<<Frame(id, Append(top.path, k), v.m)>> \o rest)]
               [] OTHER ->
                    [err |-> NoError, loc |-> loc, stack |-> Unwind(rest)]

\* what the history variable visit records of that call
VisitOf(loc, l, st, k) ==
    LET top == Head(st)
        v   == top.data[k]
        id  == JoinId(top.messageId, k)
    IN  [t |-> v.t, lang |-> l, id |-> id, data |-> v.s,
         path |-> Append(top.path, k),
         existed |-> HasMessage(loc, l, id),
         old |-> IF HasMessage(loc, l, id) THEN loc[l][id].Data ELSE sEmpty]

\* the (message id, raw text) pairs of the string leaves of a document
RECURSIVE Flatten(_, _)
Flatten(messageId, raw) ==
    IF raw.t = "str" THEN {<<messageId, raw.s>>}
    ELSE IF raw.t = "map"
    THEN UNION {Flatten(JoinId(messageId, k), raw.m[k]) : k \in DOMAIN raw.m}
    ELSE {}

(***************************************************************************)
(* checkLanguageMap.                                                       *)
(***************************************************************************)
\* the orders in which a range loop may visit the keys of a map
RangeOrders(S) ==
    {o \in [1..Cardinality(S) -> S] : \A i, j \in DOMAIN o : i # j => o[i] # o[j]}

\* a comparison with the reference that leaves out the test of the sizes
RECURSIVE CheckFromNoLength(_, _, _)
CheckFromNoLength(loc, order, i) ==
    IF i > Len(order) THEN {NoError}
    ELSE
      LET missing == {k \in DOMAIN loc[order[1]] : k \notin DOMAIN loc[order[i]]}
      IN  IF missing # {}
          THEN {[Error("missing") EXCEPT !.lang = order[i], !.ref = order[1],
                                         !.key = k, !.hasKey = TRUE] : k \in missing}
          ELSE CheckFromNoLength(loc, order, i + 1)

\* the values checkLanguageMap may return when the range loop over iLocalizer
\* visits the locales in this order, from the i-th on (the first is the
\* reference): NoError for nil
RECURSIVE CheckFrom(_, _, _)
CheckFrom(loc, order, i) ==
    IF i > Len(order) THEN {NoError}
    ELSE
      LET firstLang == order[1]
          firstMap  == loc[firstLang]
          mp        == loc[order[i]]
          missing   == {k \in DOMAIN firstMap : k \notin DOMAIN mp}
      IN  IF Cardinality(DOMAIN mp) # Cardinality(DOMAIN firstMap)
          THEN {[Error("length") EXCEPT !.lang = order[i], !.ref = firstLang]}
          ELSE IF missing # {}
          THEN {[Error("missing") EXCEPT !.lang = order[i], !.ref = firstLang,
                                         !.key = k, !.hasKey = TRUE] : k \in missing}
          ELSE CheckFrom(loc, order, i + 1)

\* checkLanguageMap comparing the sizes only, never the ids
checkLanguageMapSizes(loc) ==
    LET bad == {p \in (DOMAIN loc) \X (DOMAIN loc) :
                  Cardinality(DOMAIN loc[p[1]]) # Cardinality(DOMAIN loc[p[2]])}
    IN  IF bad = {} THEN {NoError}
        ELSE {[Error("length") EXCEPT !.lang = p[1], !.ref = p[2]] : p \in bad}

\* checkLanguageMap naming the reference locale as the one that lacks the id
checkLanguageMapSwapped(loc) ==
    {IF e = NoError THEN e ELSE [e EXCEPT !.lang = e.ref, !.ref = e.lang] :
       e \in UNION {CheckFrom(loc, o, 2) : o \in RangeOrders(DOMAIN loc)}}

\* the values checkLanguageMap() may return
checkLanguageMap(loc) ==
    UNION {CheckFrom(loc, o, 2) : o \in RangeOrders(DOMAIN loc)}

(***************************************************************************)
(* RegisterI18n.                                                           *)
(***************************************************************************)
\* no goroutine is inside Translate
AllIdle == callers = EmptyBag

\* RegisterI18n(localeDir) is called and os.ReadDir returns the entries. It
\* is not called while a Translate call is running.
RegisterI18n(dir) ==
    /\ Running
    /\ regPc \in {"idle", "done"}
    /\ registered < MaxRegister
    /\ AllIdle
    /\ registered' = registered + 1
    /\ regPc' = "loop"
    /\ fileInfos' = dir
    /\ fileIdx' = 1
    /\ visit' = NoVisit
    /\ atCall' = [l \in DOMAIN iLocalizer |->
                    [id \in DOMAIN iLocalizer[l] |-> iLocalizer[l][id].Data]]
    /\ UNCHANGED <<iLocalizer, exit, lang, stack, callers, loaded, parseCount>>

\* os.ReadDir(localeDir) fails
ReadDirFails ==
    /\ Running
    /\ regPc \in {"idle", "done"}
    /\ registered < MaxRegister
    /\ AllIdle
    /\ registered' = registered + 1
    /\ Fatalf(Error("readdir"))
    /\ UNCHANGED <<iLocalizer, regPc, fileInfos, fileIdx, lang, stack, callers,
                   loaded, visit, parseCount, atCall>>

\* a table made anew for the locale of every file
EnsureLocaleFresh(loc, l) == (l :> EmptyMap) @@ loc

\* the catalog after "if iLocalizer[lang] == nil { iLocalizer[lang] = make(...) }"
EnsureLocale(loc, l) ==
    IF l \in DOMAIN loc THEN loc ELSE (l :> EmptyMap) @@ loc

\* len(s) == 2 && s[1] == "go": the entry is passed over
IsGoFile(s) == Len(s) = 2 /\ s[2] = sGo

\* a name test that needs both conditions to reject
NameErrorBoth(s) == Len(s) # 3 /\ s[Len(s)] # sToml

\* len(s) != 3 || s[2] != "toml": the name is not <prefix>.<lang>.toml
NameError(s) == Len(s) # 3 \/ s[3] # sToml

\* one iteration of the loop over the directory entries, up to the call of
\* recGetMessages on the document
LoadFile ==
    /\ Running
    /\ regPc = "loop"
    /\ fileIdx <= Len(fileInfos)
    /\ LET f == fileInfos[fileIdx]
           s == Split(f.name, ".")
       IN  IF IsGoFile(s)
           THEN /\ fileIdx' = fileIdx + 1
                /\ UNCHANGED <<iLocalizer, exit, regPc, lang, stack, loaded>>
           ELSE IF NameError(s)
           THEN /\ Fatalf(Error("filename"))
                /\ UNCHANGED <<iLocalizer, regPc, fileIdx, lang, stack, loaded>>
           ELSE IF ~ValidTag(s[2])
           THEN /\ Panic([Error("tag") EXCEPT !.lang = s[2]])
                /\ UNCHANGED <<iLocalizer, regPc, fileIdx, lang, stack, loaded>>
           ELSE
             /\ iLocalizer' = EnsureLocale(iLocalizer, s[2])
             /\ IF f.status = "readerr"
                THEN /\ Fatalf(Error("readfile"))
                     /\ UNCHANGED <<regPc, fileIdx, lang, stack, loaded>>
                ELSE IF f.status = "parseerr"
                THEN /\ Fatalf(Error("unmarshal"))
                     /\ UNCHANGED <<regPc, fileIdx, lang, stack, loaded>>
                ELSE
                  LET st == Unwind(<<Frame(sEmpty, << >>, f.raw.m)>>)
                  IN  IF st = << >>
                      THEN /\ fileIdx' = fileIdx + 1
                           /\ loaded' = loaded \cup {[lang |-> s[2], raw |-> f.raw]}
                           /\ UNCHANGED <<exit, regPc, lang, stack>>
                      ELSE /\ regPc' = "walk"
                           /\ lang' = s[2]
                           /\ stack' = st
                           /\ UNCHANGED <<exit, fileIdx, loaded>>
    /\ visit' = NoVisit
    /\ UNCHANGED <<fileInfos, registered, callers, parseCount, atCall>>

\* recGetMessages is called on the next key of the innermost table
RecGetMessages ==
    /\ Running
    /\ regPc = "walk"
    /\ \E k \in Head(stack).todo :
         LET r == VisitKey(iLocalizer, lang, stack, k)
         IN  /\ visit' = VisitOf(iLocalizer, lang, stack, k)
             /\ IF r.err # NoError
                THEN /\ Fatalf(r.err)
                     /\ UNCHANGED <<iLocalizer, regPc, fileIdx, lang, stack, loaded>>
                ELSE
                  /\ iLocalizer' = r.loc
                  /\ IF r.stack = << >>
                     THEN /\ regPc' = "loop"
                          /\ fileIdx' = fileIdx + 1
                          /\ lang' = sEmpty
                          /\ stack' = << >>
                          /\ loaded' = loaded \cup
                               {[lang |-> lang, raw |-> fileInfos[fileIdx].raw]}
                     ELSE /\ stack' = r.stack
                          /\ UNCHANGED <<regPc, fileIdx, lang, loaded>>
                  /\ UNCHANGED exit
    /\ UNCHANGED <<fileInfos, registered, callers, parseCount, atCall>>

\* after the last entry: "if err := checkLanguageMap(); err != nil { log.Fatalf }"
CheckLanguageMap ==
    /\ Running
    /\ regPc = "loop"
    /\ fileIdx > Len(fileInfos)
    /\ \E err \in checkLanguageMap(iLocalizer) :
         IF err # NoError
         THEN /\ Fatalf(err)
              /\ UNCHANGED <<regPc, fileInfos, fileIdx, atCall>>
         ELSE /\ regPc' = "done"
              /\ fileInfos' = << >>
              /\ fileIdx' = 0
              /\ atCall' = << >>
              /\ UNCHANGED exit
    /\ visit' = NoVisit
    /\ UNCHANGED <<iLocalizer, lang, stack, registered, callers, loaded, parseCount>>

(***************************************************************************)
(* Translate. A call is a record of its arguments, its position ("once":   *)
(* at parseOnce.Do, "compiling": inside the function given to Do, "exec":  *)
(* at Execute, "done": returned) and its result. Goroutines have no        *)
(* identity of their own, so the calls in progress form a bag.             *)
(***************************************************************************)
Call(pc, l, messageId, data, result) ==
    [pc |-> pc, lang |-> l, messageId |-> messageId, data |-> data,
     result |-> result]

\* the calls with call c replaced by call d
Moved(c, d) == (callers (-) SetToBag({c})) (+) SetToBag({d})

\* the message a call has looked up
MessageOf(c) == iLocalizer[c.lang][c.messageId]

\* a fast path that looks for one brace instead of the delimiter
FastPathOneBrace(data) == ~Contains(data, <<"{">>)

\* whether Translate returns message.Data as it is:
\* !strings.Contains(message.Data, leftDelim)
FastPath(data) == ~Contains(data, leftDelim)

\* a failed lookup that is logged and returns ""
LookupFailsReturnsEmpty(l, messageId, data, err) ==
    /\ callers' = callers (+) SetToBag({Call("done", l, messageId, data, sEmpty)})
    /\ UNCHANGED exit

\* a failed lookup: log.Fatalf ends the process, nothing is returned
LookupFails(l, messageId, data, err) ==
    /\ Fatalf(err)
    /\ UNCHANGED callers

\* Translate(lang, messageId, templateDate), up to the call of parseOnce.Do:
\* the two lookups and the return of a message without delimiter. It is not
\* called while RegisterI18n is running.
Translate(l, messageId, data) ==
    /\ Running
    /\ regPc \in {"idle", "done"}
    /\ BagCardinality(callers) < MaxCallers
    /\ IF l \notin DOMAIN iLocalizer
       THEN LookupFails(l, messageId, data, [Error("nolocalizer") EXCEPT !.lang = l])
       ELSE IF messageId \notin DOMAIN iLocalizer[l]
       THEN LookupFails(l, messageId, data,
                        [Error("nomessage") EXCEPT
                            !.lang = l, !.key = messageId, !.hasKey = TRUE])
       ELSE IF FastPath(iLocalizer[l][messageId].Data)
       THEN /\ callers' = callers (+) SetToBag(
                   {Call("done", l, messageId, data, iLocalizer[l][messageId].Data)})
            /\ UNCHANGED exit
       ELSE /\ callers' = callers (+) SetToBag(
                   {Call("once", l, messageId, data, sEmpty)})
            /\ UNCHANGED exit
    /\ UNCHANGED <<iLocalizer, loaderVars, parseCount>>

\* a guard that lets callers through as soon as a call of f has begun
OnceDoneEarly(message) == message.parseOnce \in {"running", "done"}

\* a guard that never notes that f has completed
OnceDoneNever(message) == FALSE

\* sync.Once: whether Do returns at once, without calling f
OnceDone(message) == message.parseOnce = "done"

\* a guard that does not keep a second caller out while f runs
OnceFreeNoLock(message) == message.parseOnce \in {"new", "running"}

\* sync.Once: whether Do may call f now (no call of f has begun)
OnceFree(message) == message.parseOnce = "new"

\* message.parseOnce.Do(f) is entered: it returns when f has completed
\* before, calls f when no call of f has begun, and blocks otherwise
OnceDo(c) ==
    /\ Running
    /\ c.pc = "once"
    /\ IF OnceDone(MessageOf(c))
       THEN /\ callers' = Moved(c, [c EXCEPT !.pc = "exec"])
            /\ UNCHANGED iLocalizer
       ELSE /\ OnceFree(MessageOf(c))
            /\ callers' = Moved(c, [c EXCEPT !.pc = "compiling"])
            /\ iLocalizer' = [iLocalizer EXCEPT
                 ![c.lang][c.messageId].parseOnce = "running"]
    /\ UNCHANGED <<exit, loaderVars, parseCount>>

\* the count of the parses of a message, one higher
CountParse(count, key) ==
    IF key \in DOMAIN count THEN [count EXCEPT ![key] = @ + 1]
    ELSE (key :> 1) @@ count

\* a parse error that is logged without ending the process: Do returns with
\* no template stored
ParseFailedGoesOn(c) ==
    /\ iLocalizer' = [iLocalizer EXCEPT ![c.lang][c.messageId].parseOnce = "done"]
    /\ callers' = Moved(c, [c EXCEPT !.pc = "exec"])
    /\ UNCHANGED exit

\* if err != nil { log.Fatalf(...) } inside the function given to Do: the
\* process ends while Do has not returned
ParseFailed(c) ==
    /\ Fatalf([Error("parse") EXCEPT
                  !.lang = c.lang, !.key = c.messageId, !.hasKey = TRUE])
    /\ UNCHANGED <<iLocalizer, callers>>

\* the texts of the messages of the modelled files
PoolTexts ==
    UNION {{p[2] : p \in Flatten(sEmpty, Pool[i].raw)} : i \in DOMAIN Pool}

\* gotemplate.New("").Parse(text) for each of them; the result depends on the
\* text alone
ParseOf == [s \in PoolTexts |-> Parse(s)]

\* a template kept per message id: stored in every locale that has the id
StoreTemplateById(loc, c, tmpl) ==
    [l \in DOMAIN loc |->
        IF c.messageId \in DOMAIN loc[l]
        THEN [loc[l] EXCEPT ![c.messageId].parsedTemplate = tmpl,
                            ![c.messageId].parseOnce = "done"]
        ELSE loc[l]]

\* message.parsedTemplate, err = ...Parse(message.Data), after which Do marks
\* the guard of the message as done
StoreTemplate(loc, c, tmpl) ==
    [loc EXCEPT ![c.lang][c.messageId].parsedTemplate = tmpl,
                ![c.lang][c.messageId].parseOnce = "done"]

\* the function given to parseOnce.Do: the template is parsed and stored; a
\* parse error ends the process, otherwise Do returns
Compile(c) ==
    /\ Running
    /\ c.pc = "compiling"
    /\ LET p == ParseOf[MessageOf(c).Data]
       IN  /\ parseCount' = CountParse(parseCount, <<c.lang, c.messageId>>)
           /\ IF p.err
              THEN ParseFailed(c)
              ELSE /\ iLocalizer' = StoreTemplate(iLocalizer, c, p.tmpl)
                   /\ callers' = Moved(c, [c EXCEPT !.pc = "exec"])
                   /\ UNCHANGED exit
    /\ UNCHANGED loaderVars

\* a buffer shared by the calls, which still holds the text of a finished call
\* of the message
BufStringShared(c, out) ==
    LET prev == {d \in BagToSet(callers) :
                    d.pc = "done" /\ d.lang = c.lang /\ d.messageId = c.messageId}
    IN  IF prev = {} THEN out ELSE (CHOOSE d \in prev : TRUE).result \o out

\* var buf bytes.Buffer ... return buf.String(): the buffer is the call's own
BufString(c, out) == out

\* message.parsedTemplate.Execute(&buf, templateDate) and the return
Exec(c) ==
    /\ Running
    /\ c.pc = "exec"
    /\ LET tmpl == MessageOf(c).parsedTemplate
           r    == Execute(tmpl, c.data)
       IN  IF tmpl.nil
           THEN /\ Panic([Error("niltemplate") EXCEPT
                             !.lang = c.lang, !.key = c.messageId, !.hasKey = TRUE])
                /\ UNCHANGED callers
           ELSE IF r.err
           THEN /\ Fatalf([Error("execute") EXCEPT
                              !.lang = c.lang, !.key = c.messageId, !.hasKey = TRUE])
                /\ UNCHANGED callers
           ELSE /\ callers' = Moved(c, [c EXCEPT !.pc = "done",
                                                !.result = BufString(c, r.out)])
                /\ UNCHANGED exit
    /\ UNCHANGED <<iLocalizer, loaderVars, parseCount>>

\* the caller of a finished Translate call goes on
Return(c) ==
    /\ Running
    /\ c.pc = "done"
    /\ callers' = callers (-) SetToBag({c})
    /\ UNCHANGED <<iLocalizer, exit, loaderVars, parseCount>>

(***************************************************************************)
(* The process.                                                            *)
(***************************************************************************)
Next ==
    \/ \E dir \in Dirs : RegisterI18n(dir)
    \/ ReadDirFails
    \/ LoadFile
    \/ RecGetMessages
    \/ CheckLanguageMap
    \/ \E l \in LangPool, messageId \in IdPool, data \in DataPool :
         Translate(l, messageId, data)
    \/ \E c \in BagToSet(callers) : OnceDo(c)
    \/ \E c \in BagToSet(callers) : Compile(c)
    \/ \E c \in BagToSet(callers) : Exec(c)
    \/ \E c \in BagToSet(callers) : Return(c)

Spec == Init /\ [][Next]_vars

\* the steps of the process when RegisterI18n is invoked at most
\* MaxRegisterFair times
FairNext ==
    \/ \E dir \in Dirs : registered < MaxRegisterFair /\ RegisterI18n(dir)
    \/ registered < MaxRegisterFair /\ ReadDirFails
    \/ LoadFile
    \/ RecGetMessages
    \/ CheckLanguageMap
    \/ \E l \in LangPool, messageId \in IdPool, data \in DataPool :
         Translate(l, messageId, data)
    \/ \E c \in BagToSet(callers) : OnceDo(c)
    \/ \E c \in BagToSet(callers) : Compile(c)
    \/ \E c \in BagToSet(callers) : Exec(c)
    \/ \E c \in BagToSet(callers) : Return(c)

\* the Go scheduler runs every goroutine that can run: a call that can pass
\* the guard, parse, or execute is not left waiting for ever
FairSpec ==
    /\ Init
    /\ [][FairNext]_vars
    /\ WF_vars(\E c \in BagToSet(callers) : OnceDo(c))
    /\ WF_vars(\E c \in BagToSet(callers) : Compile(c))
    /\ WF_vars(\E c \in BagToSet(callers) : Exec(c))

(***************************************************************************)
(* Definitions used by the properties.                                     *)
(***************************************************************************)
\* the message ids of a locale
Ids(l) == DOMAIN iLocalizer[l]

\* the (message id, raw text) pairs of a locale
Pairs(l) == {<<id, iLocalizer[l][id].Data>> : id \in Ids(l)}

\* the (locale, message id) pairs of the catalog
Messages == UNION {{<<l, id>> : id \in Ids(l)} : l \in DOMAIN iLocalizer}

\* the texts of the modelled files that hold the delimiter "{{"
TemplatedTexts == {s \in PoolTexts : Contains(s, leftDelim)}

\* whether the raw text of a message holds the delimiter
Templated(data) == data \in TemplatedTexts

\* the calls in progress on one message
CallsOn(l, id) == {c \in BagToSet(callers) : c.lang = l /\ c.messageId = id}

\* the state of the compiled-template slot of message (l, id) in catalog loc,
\* the process being as ex says
SlotState(loc, ex, l, id) ==
    LET message == loc[l][id]
        failed  == /\ ex.kind = "fatal" /\ ex.err.what = "parse"
                   /\ ex.err.lang = l /\ ex.err.key = id
    IN  CASE message.parseOnce = "new" -> "Uncompiled"
          [] message.parseOnce = "running" ->
               IF failed THEN "CompileFailed" ELSE "Compiling"
          [] OTHER ->
               IF message.parsedTemplate.nil THEN "CompileFailed" ELSE "Compiled"

\* whether a document holds a value that is neither a string nor a table
RECURSIVE HasBadLeaf(_)
HasBadLeaf(raw) ==
    IF raw.t = "str" THEN FALSE
    ELSE IF raw.t = "map" THEN \E k \in DOMAIN raw.m : HasBadLeaf(raw.m[k])
    ELSE TRUE

\* checkLanguageMap has returned an error
CheckFailed == exit.kind = "fatal" /\ exit.err.what \in {"length", "missing"}

(***************************************************************************)
(* C1. Whenever RegisterI18n has completed without a fatal error, any two  *)
(* locales of the catalog have the same set of message ids.                *)
(***************************************************************************)
C1_SameIdSets ==
    regPc = "done" =>
        \A l1, l2 \in DOMAIN iLocalizer : Ids(l1) = Ids(l2)

C1_Witness ==
    /\ regPc = "done"
    /\ Running
    /\ Cardinality(DOMAIN iLocalizer) = 2
    /\ \A l \in DOMAIN iLocalizer : Cardinality(Ids(l)) = 2

(***************************************************************************)
(* C2. Under every interleaving of concurrent Translate calls, the         *)
(* template of a message is parsed exactly once before any call executes   *)
(* it, and calls with the same locale, message id and data return the same *)
(* string.                                                                 *)
(***************************************************************************)
C2_ParsedOnce ==
    /\ \A key \in DOMAIN parseCount : parseCount[key] = 1
    /\ \A c \in BagToSet(callers) :
         (c.pc = "exec" \/ (c.pc = "done" /\ Templated(MessageOf(c).Data)))
            => <<c.lang, c.messageId>> \in DOMAIN parseCount
    /\ \A c1, c2 \in BagToSet(callers) :
         (/\ c1.pc = "done" /\ c2.pc = "done"
          /\ c1.lang = c2.lang /\ c1.messageId = c2.messageId
          /\ c1.data = c2.data)
            => c1.result = c2.result

C2_Witness ==
    \E c \in BagToSet(callers) :
        /\ c.pc = "done"
        /\ Templated(MessageOf(c).Data)
        /\ CopiesIn(c, callers) >= 2
        /\ parseCount[<<c.lang, c.messageId>>] = 1

(***************************************************************************)
(* C3. The compiled-template slot of a message moves only                  *)
(* Uncompiled -> Compiling -> {Compiled, CompileFailed}; once the          *)
(* compilation of a message has failed it was attempted exactly once, and  *)
(* no call on that message executes a template or returns a string.        *)
(***************************************************************************)
C3_SlotSteps ==
    {<<"Uncompiled", "Compiling">>, <<"Compiling", "Compiled">>,
     <<"Compiling", "CompileFailed">>}

C3_FailureIsTerminal ==
    /\ [](\A p \in Messages :
            SlotState(iLocalizer, exit, p[1], p[2]) = "CompileFailed" =>
               /\ p \in DOMAIN parseCount
               /\ parseCount[p] = 1
               /\ \A c \in CallsOn(p[1], p[2]) : c.pc \notin {"exec", "done"})
    /\ [][\A p \in Messages :
            LET before == SlotState(iLocalizer, exit, p[1], p[2])
                after  == SlotState(iLocalizer', exit', p[1], p[2])
            IN  /\ before = after \/ <<before, after>> \in C3_SlotSteps
                /\ before = "CompileFailed" => parseCount' = parseCount]_vars

C3_Witness ==
    \E p \in Messages :
        /\ SlotState(iLocalizer, exit, p[1], p[2]) = "CompileFailed"
        /\ \E c \in CallsOn(p[1], p[2]) : c.pc = "once"

(***************************************************************************)
(* C4 (as amended). When checkLanguageMap fails, the error names the       *)
(* locale being compared and the reference locale, which is the first      *)
(* locale of the iteration; a size mismatch names no message id, and an    *)
(* error that names a message id names one that the reference locale has   *)
(* and the compared locale, of the same size, lacks.                       *)
(***************************************************************************)
C4_ErrorNamesLocales ==
    CheckFailed =>
        LET e == exit.err
        IN  /\ e.lang \in DOMAIN iLocalizer
            /\ e.ref \in DOMAIN iLocalizer
            /\ e.lang # e.ref
            /\ e.what = "length" =>
                 /\ ~e.hasKey
                 /\ Cardinality(Ids(e.lang)) # Cardinality(Ids(e.ref))
            /\ e.what = "missing" =>
                 /\ e.hasKey
                 /\ Cardinality(Ids(e.lang)) = Cardinality(Ids(e.ref))
                 /\ e.key \in Ids(e.ref) \ Ids(e.lang)

C4_Witness ==
    /\ CheckFailed
    /\ exit.err.what = "missing"
    /\ exit.err.lang = sZhCN
    /\ exit.err.ref = sEnUS

\* C4 as stated: a failure of checkLanguageMap identifies the offending
\* locale, the missing message id and the reference locale; when en-US
\* defines A.B and zh-CN does not, it identifies zh-CN, A.B and en-US.
C4_Original ==
    CheckFailed =>
        /\ exit.err.hasKey
        /\ exit.err.key \in Ids(exit.err.ref) \ Ids(exit.err.lang)
        /\ (/\ sEnUS \in DOMAIN iLocalizer /\ sZhCN \in DOMAIN iLocalizer
            /\ idAB \in Ids(sEnUS) /\ idAB \notin Ids(sZhCN))
              => /\ exit.err.lang = sZhCN
                 /\ exit.err.key = idAB
                 /\ exit.err.ref = sEnUS

(***************************************************************************)
(* C5 (as amended). During loading, a non-empty string leaf whose message  *)
(* id already exists for the same locale ends the process with the         *)
(* duplicate-id error and the stored raw text is not overwritten; a        *)
(* non-empty string leaf whose id exists only in other locales is stored.  *)
(***************************************************************************)
C5_DuplicateIsFatal ==
    (visit.t = "str" /\ visit.data # sEmpty) =>
        IF visit.existed
        THEN /\ exit.kind = "fatal"
             /\ exit.err.what = "duplicate"
             /\ exit.err.key = visit.id
             /\ exit.err.old = visit.old
             /\ exit.err.new = visit.data
             /\ iLocalizer[visit.lang][visit.id].Data = visit.old
        ELSE /\ Running
             /\ iLocalizer[visit.lang][visit.id].Data = visit.data

\* a nested-path collision inside the first file of a directory
C5_Witness ==
    /\ visit.t = "str"
    /\ visit.existed
    /\ visit.data # visit.old
    /\ exit.err.what = "duplicate"
    /\ loaded = {}

\* the same id in another locale is no duplicate
C5_WitnessOtherLocale ==
    /\ visit.t = "str"
    /\ ~visit.existed
    /\ Running
    /\ \E l \in DOMAIN iLocalizer : l # visit.lang /\ visit.id \in Ids(l)

\* C5 as stated: every string leaf whose id already exists for the locale
\* ends the process with the duplicate-id error.
C5_Original ==
    (visit.t = "str" /\ visit.existed) =>
        /\ exit.kind = "fatal"
        /\ exit.err.what = "duplicate"
        /\ iLocalizer[visit.lang][visit.id].Data = visit.old

(***************************************************************************)
(* C6 (as amended). When recGetMessages reaches a value that is neither a  *)
(* string nor a table, at any depth, the process ends with the             *)
(* unsupported-data-format error; a document that holds such a value is    *)
(* never walked to the end and RegisterI18n never completes for a          *)
(* directory with such a document (the process may end earlier with the    *)
(* error of an empty or duplicate leaf that the walk visits first).        *)
(***************************************************************************)
C6_IsLocaleFile(f) ==
    LET s == Split(f.name, ".")
    IN  Len(s) = 3 /\ s[3] = sToml

C6_UnsupportedIsFatal ==
    /\ [](/\ visit.t \notin {"", "str", "map"} =>
               exit.kind = "fatal" /\ exit.err.what = "unsupported"
          /\ \A d \in loaded : ~HasBadLeaf(d.raw))
    /\ [][(regPc = "loop" /\ regPc' = "done") =>
             \A i \in DOMAIN fileInfos :
                 C6_IsLocaleFile(fileInfos[i]) => ~HasBadLeaf(fileInfos[i].raw)]_vars

\* an int64 two tables deep
C6_Witness ==
    /\ visit.t = "int64"
    /\ Len(visit.id) = 3
    /\ exit.kind = "fatal"
    /\ exit.err.what = "unsupported"

\* C6 as stated: the load of a document with such a value fails with the
\* unsupported-data-format error.
C6_Original ==
    (/\ exit.kind = "fatal"
     /\ regPc = "walk"
     /\ HasBadLeaf(fileInfos[fileIdx].raw))
        => exit.err.what = "unsupported"

(***************************************************************************)
(* C7. For a message whose raw text does not contain "{{", Translate       *)
(* returns the raw text itself whatever the data, and the message's        *)
(* compile guard and compiled template stay untouched.                     *)
(***************************************************************************)
C7_FastPathVerbatim ==
    /\ \A c \in BagToSet(callers) :
         ~Templated(MessageOf(c).Data) =>
             c.pc = "done" /\ c.result = MessageOf(c).Data
    /\ \A l \in DOMAIN iLocalizer : \A id \in Ids(l) :
         ~Templated(iLocalizer[l][id].Data) =>
             /\ iLocalizer[l][id].parseOnce = "new"
             /\ iLocalizer[l][id].parsedTemplate = NilTemplate
             /\ <<l, id>> \notin DOMAIN parseCount

\* the text "{x{" returned for the nil map and for a map with a key
C7_Witness ==
    /\ \E c \in BagToSet(callers) :
         c.pc = "done" /\ c.result = sBrace /\ c.data = NilData
    /\ \E c \in BagToSet(callers) :
         c.pc = "done" /\ c.result = sBrace /\ c.data = AnaData

(***************************************************************************)
(* C8. Translate ends the process, returning nothing, when the locale has  *)
(* no catalog entry or the message id is absent for the locale, also       *)
(* before RegisterI18n has run, and the failed lookup adds no locale and   *)
(* no message id to the catalog.                                           *)
(***************************************************************************)
C8_LookupFailureIsFatal ==
    /\ \A c \in BagToSet(callers) : HasMessage(iLocalizer, c.lang, c.messageId)
    /\ exit.err.what = "nolocalizer" =>
         exit.kind = "fatal" /\ exit.err.lang \notin DOMAIN iLocalizer
    /\ exit.err.what = "nomessage" =>
         /\ exit.kind = "fatal"
         /\ exit.err.lang \in DOMAIN iLocalizer
         /\ exit.err.key \notin Ids(exit.err.lang)
    /\ registered = 0 => iLocalizer = << >> /\ callers = EmptyBag

C8_Witness ==
    /\ registered = 0
    /\ exit.kind = "fatal"
    /\ exit.err.what = "nolocalizer"

C8_WitnessNoMessage ==
    /\ exit.kind = "fatal"
    /\ exit.err.what = "nomessage"
    /\ callers # EmptyBag

(***************************************************************************)
(* C9 (as amended). A placeholder whose key is absent from the data does   *)
(* not fail: it renders as "<no value>". "Hi {{.Missing}}" translated      *)
(* with an empty map returns "Hi <no value>".                              *)
(***************************************************************************)
C9_MissingKeyRendersNoValue ==
    /\ \A c \in BagToSet(callers) :
         (c.pc = "done" /\ MessageOf(c).Data = sHi) =>
             c.result = <<"H", "i", " ">> \o noValue
    /\ \A c \in BagToSet(callers) :
         (c.pc = "done" /\ MessageOf(c).Data = sHello /\ sName \notin DOMAIN c.data.m) =>
             c.result = <<"H", "e", "l", "l", "o", ",", " ">> \o noValue
    /\ (exit.kind = "fatal" /\ exit.err.what = "execute") =>
         iLocalizer[exit.err.lang][exit.err.key].Data \notin {sHi, sHello}

C9_Witness ==
    \E c \in BagToSet(callers) :
        /\ c.pc = "done"
        /\ MessageOf(c).Data = sHi
        /\ c.data = EmptyData
        /\ c.result = <<"H", "i", " ">> \o noValue

\* C9 as stated: "Hi {{.Missing}}" with an empty map returns "Hi ".
C9_Original ==
    \A c \in BagToSet(callers) :
        (c.pc = "done" /\ MessageOf(c).Data = sHi /\ c.data = EmptyData) =>
            c.result = <<"H", "i", " ">>

(***************************************************************************)
(* C10. The files of one locale accumulate: the pairs of every document    *)
(* walked to the end stay in the table of its locale, and after a          *)
(* successful load the table of each locale is the union of the flattened  *)
(* pairs of the documents of that locale.                                  *)
(***************************************************************************)
C10_Accumulates ==
    /\ \A d \in loaded :
         /\ d.lang \in DOMAIN iLocalizer
         /\ Flatten(sEmpty, d.raw) \subseteq Pairs(d.lang)
    /\ regPc = "done" =>
         \A l \in DOMAIN iLocalizer :
             Pairs(l) = UNION {Flatten(sEmpty, d.raw) : d \in {x \in loaded : x.lang = l}}

\* two documents of one locale, each with a message
C10_Witness ==
    /\ regPc = "done"
    /\ \E d1, d2 \in loaded :
         /\ d1 # d2
         /\ d1.lang = d2.lang
         /\ Flatten(sEmpty, d1.raw) # {}
         /\ Flatten(sEmpty, d2.raw) # {}

(***************************************************************************)
(* C11. Every directory entry is handled in exactly one of three ways,     *)
(* decided by the segments of its name between the dots: two segments      *)
(* ending in "go" are passed over and leave the catalog as it was; three   *)
(* segments ending in "toml" are loaded; every other name (no dot, two     *)
(* segments with another extension, three segments with another            *)
(* extension, four or more segments) ends the process with the filename    *)
(* error.                                                                  *)
(***************************************************************************)
C11_Segments == Split(fileInfos[fileIdx].name, ".")

C11_Skipped ==
    /\ exit' = exit
    /\ iLocalizer' = iLocalizer
    /\ loaded' = loaded
    /\ regPc' = "loop"
    /\ fileIdx' = fileIdx + 1

C11_FilenameError ==
    /\ exit'.kind = "fatal"
    /\ exit'.err.what = "filename"
    /\ iLocalizer' = iLocalizer

\* the entry got past the name test: the tag is parsed, the file read and
\* unmarshalled, the document walked
C11_Loaded ==
    \/ exit'.kind # "running" /\ exit'.err.what \in {"tag", "readfile", "unmarshal"}
    \/ /\ exit' = exit
       /\ C11_Segments[2] \in DOMAIN iLocalizer'
       /\ \/ regPc' = "walk" /\ lang' = C11_Segments[2]
          \/ /\ fileIdx' = fileIdx + 1
             /\ [lang |-> C11_Segments[2], raw |-> fileInfos[fileIdx].raw] \in loaded'

C11_OneOfThree ==
    [][(exit.kind = "running" /\ regPc = "loop" /\ fileIdx <= Len(fileInfos)) =>
          LET s == C11_Segments
          IN  IF Len(s) = 2 /\ s[2] = <<"g", "o">>
              THEN C11_Skipped /\ ~C11_FilenameError /\ ~C11_Loaded
              ELSE IF Len(s) = 3 /\ s[3] = <<"t", "o", "m", "l">>
              THEN C11_Loaded /\ ~C11_FilenameError /\ ~C11_Skipped
              ELSE C11_FilenameError /\ ~C11_Skipped /\ ~C11_Loaded]_vars

\* a name of four segments ended the process with the filename error
C11_Witness ==
    /\ exit.kind = "fatal"
    /\ exit.err.what = "filename"
    /\ regPc = "loop"
    /\ Len(Split(fileInfos[fileIdx].name, ".")) = 4

(***************************************************************************)
(* C12. Once the template of a message is compiled, rendering is           *)
(* repeatable: a Translate call that finishes returns the same string as   *)
(* every finished call with the same locale, message id and data that is   *)
(* still held, however many calls were made in between and whatever calls  *)
(* on other messages they were interleaved with; and the string is the     *)
(* compiled template executed on the data.                                 *)
(***************************************************************************)
C12_SameArgs(c, d) ==
    /\ c.lang = d.lang
    /\ c.messageId = d.messageId
    /\ c.data = d.data

C12_RenderIsRepeatable ==
    [][\A c \in BagToSet(callers), d \in BagToSet(callers') :
          (/\ c.pc = "done"
           /\ d.pc = "done"
           /\ C12_SameArgs(c, d)
           /\ Templated(iLocalizer[c.lang][c.messageId].Data)) =>
              /\ d.result = c.result
              /\ iLocalizer'[d.lang][d.messageId].parseOnce = "done"
              /\ d.result = Execute(iLocalizer'[d.lang][d.messageId].parsedTemplate,
                                    d.data).out]_vars

\* the same render finished twice, with the first one still held
C12_Witness ==
    \E c \in BagToSet(callers) :
        /\ c.pc = "done"
        /\ Templated(MessageOf(c).Data)
        /\ c.data = AnaData
        /\ CopiesIn(c, callers) >= 2

(***************************************************************************)
(* C13. A caller gets to the execution of the template only when the slot  *)
(* of the message holds the result of a successful compilation. While one  *)
(* caller compiles, the other first callers of the message wait at the     *)
(* guard: none of them is executing or has returned, and exactly one       *)
(* caller is compiling. No caller ever executes a nil template.            *)
(***************************************************************************)
C13_ExecutesCompiledOnly ==
    /\ \A c \in BagToSet(callers) :
         (c.pc = "exec" \/ (c.pc = "done" /\ Templated(MessageOf(c).Data))) =>
             /\ MessageOf(c).parseOnce = "done"
             /\ ~MessageOf(c).parsedTemplate.nil
    /\ \A p \in Messages :
         iLocalizer[p[1]][p[2]].parseOnce = "running" =>
             /\ iLocalizer[p[1]][p[2]].parsedTemplate.nil
             /\ \A c \in CallsOn(p[1], p[2]) : c.pc \in {"once", "compiling"}
             /\ BagCardinality(
                  [c \in {x \in CallsOn(p[1], p[2]) : x.pc = "compiling"} |->
                      CopiesIn(c, callers)]) = 1
    /\ ~(exit.kind = "panic" /\ exit.err.what = "niltemplate")

\* a first caller waits at the guard while another one compiles
C13_Witness ==
    \E c, d \in BagToSet(callers) :
        /\ c.pc = "compiling"
        /\ d.pc = "once"
        /\ c.lang = d.lang
        /\ c.messageId = d.messageId
        /\ MessageOf(c).parseOnce = "running"

(***************************************************************************)
(* C14. Whether checkLanguageMap succeeds does not depend on the locale    *)
(* the map iteration makes the reference, nor on the order in which the    *)
(* other locales are visited: for the catalog of every reachable state,    *)
(* either every order returns nil or every order returns an error.         *)
(***************************************************************************)
C14_OrderIndependent ==
    \A o1, o2 \in RangeOrders(DOMAIN iLocalizer) :
        (NoError \in CheckFrom(iLocalizer, o1, 2)) <=>
            (CheckFrom(iLocalizer, o2, 2) = {NoError})

\* two locales with as many ids and different ones: the validation failed,
\* as it does with the other locale as the reference
C14_Witness ==
    /\ exit.kind = "fatal"
    /\ exit.err.what = "missing"
    /\ Cardinality(DOMAIN iLocalizer) = 2
    /\ \A o \in RangeOrders(DOMAIN iLocalizer) :
         NoError \notin CheckFrom(iLocalizer, o, 2)

(***************************************************************************)
(* C15. Once RegisterI18n has completed, Translate calls leave the data    *)
(* of the catalog as it is: the locales, the message ids of each locale    *)
(* and the raw data of each message do not change. A step of a Translate   *)
(* call changes at most the compile guard and the template slot of one     *)
(* message, the one the call has looked up.                                *)
(***************************************************************************)
C15_Changed ==
    {p \in Messages : iLocalizer'[p[1]][p[2]] # iLocalizer[p[1]][p[2]]}

C15_TranslateKeepsData ==
    [][(regPc = "done" /\ regPc' = "done") =>
          /\ DOMAIN iLocalizer' = DOMAIN iLocalizer
          /\ \A l \in DOMAIN iLocalizer : DOMAIN iLocalizer'[l] = DOMAIN iLocalizer[l]
          /\ \A p \in Messages : iLocalizer'[p[1]][p[2]].Data = iLocalizer[p[1]][p[2]].Data
          /\ Cardinality(C15_Changed) <= 1
          /\ \A p \in C15_Changed :
               \E c \in BagToSet(callers) :
                   /\ c \notin BagToSet(callers') \/ CopiesIn(c, callers') < CopiesIn(c, callers)
                   /\ c.lang = p[1]
                   /\ c.messageId = p[2]]_vars

\* calls have compiled the same message id in two locales, and returned
C15_Witness ==
    /\ regPc = "done"
    /\ callers = EmptyBag
    /\ \E p, q \in Messages :
         /\ p[1] # q[1]
         /\ p[2] = q[2]
         /\ iLocalizer[p[1]][p[2]].parseOnce = "done"
         /\ iLocalizer[q[1]][q[2]].parseOnce = "done"

(***************************************************************************)
(* C16. The compiled-template state of a message only moves forward. The   *)
(* guard leaves its initial state once, by the first Translate call that   *)
(* takes the slow path on the message, and never comes back to it; a       *)
(* compiled template, once present, is never cleared or replaced, and the  *)
(* message is never removed, by later calls or by a later RegisterI18n.    *)
(***************************************************************************)
C16_Kept(p) ==
    /\ p[1] \in DOMAIN iLocalizer'
    /\ p[2] \in DOMAIN iLocalizer'[p[1]]

C16_SlotIsMonotonic ==
    [][\A p \in Messages :
          LET old == iLocalizer[p[1]][p[2]]
          IN  /\ C16_Kept(p)
              /\ old.parseOnce # "new" => iLocalizer'[p[1]][p[2]].parseOnce # "new"
              /\ old.parseOnce = "done" => iLocalizer'[p[1]][p[2]] = old
              /\ ~old.parsedTemplate.nil =>
                     iLocalizer'[p[1]][p[2]].parsedTemplate = old.parsedTemplate
              /\ (old.parseOnce = "new" /\ iLocalizer'[p[1]][p[2]] # old) =>
                     /\ iLocalizer'[p[1]][p[2]] = [old EXCEPT !.parseOnce = "running"]
                     /\ Templated(old.Data)
                     /\ p \notin DOMAIN parseCount
                     /\ \E c \in CallsOn(p[1], p[2]) : c.pc = "once"]_vars

\* a template compiled before the second RegisterI18n is there after it
C16_Witness ==
    /\ registered = 2
    /\ regPc = "done"
    /\ \E p \in Messages :
         /\ iLocalizer[p[1]][p[2]].parseOnce = "done"
         /\ ~iLocalizer[p[1]][p[2]].parsedTemplate.nil
    /\ \E d \in loaded : d.lang = sEnUS /\ d.raw = Map(idC :> Str(sHi))

(***************************************************************************)
(* C17 (as stated). Flattening gives every string leaf the message id that *)
(* is the dot-join of all the keys on its path from the top of the         *)
(* document, every key one segment, the empty key too, with the leaf as    *)
(* the raw data: a leaf that recGetMessages has stored is in the catalog   *)
(* under the dot-join of its path. It fails for a leaf under an empty      *)
(* key, whose id lacks the segment of that key and its dot.                *)
(***************************************************************************)
RECURSIVE C17_DotJoin(_)
C17_DotJoin(path) ==
    IF Len(path) = 1 THEN path[1]
    ELSE path[1] \o <<".">> \o C17_DotJoin(Tail(path))

C17_Original ==
    (visit.t = "str" /\ exit.kind = "running") =>
        /\ visit.id = C17_DotJoin(visit.path)
        /\ HasMessage(iLocalizer, visit.lang, C17_DotJoin(visit.path))
        /\ iLocalizer[visit.lang][C17_DotJoin(visit.path)].Data = visit.data

(***************************************************************************)
(* C18. No message stored in the catalog has empty raw data, in any state  *)
(* during or after loading: an empty string leaf ends the process before   *)
(* the message is stored.                                                  *)
(***************************************************************************)
C18_NoEmptyMessage ==
    \A l \in DOMAIN iLocalizer :
        \A id \in DOMAIN iLocalizer[l] : Len(iLocalizer[l][id].Data) > 0

\* recGetMessages met an empty leaf: the process ended and the id is not stored
C18_Witness ==
    /\ exit.kind = "fatal"
    /\ exit.err.what = "empty"
    /\ visit.t = "str"
    /\ visit.data = sEmpty
    /\ ~HasMessage(iLocalizer, visit.lang, visit.id)
    /\ iLocalizer[visit.lang] # << >>

(***************************************************************************)
(* C19 (as amended). Every top-level key of the catalog is a well-formed   *)
(* locale tag, and it is the middle segment of the file name exactly as    *)
(* the name spells it: a file whose middle segment is not a valid tag ends *)
(* the process before the catalog gets an entry for it. The key is not     *)
(* normalised: a.en-US.toml and a.en-us.toml make the two entries en-US    *)
(* and en-us, each with its own messages.                                  *)
(***************************************************************************)
C19_Letters ==
    << <<"a", "A">>, <<"b", "B">>, <<"c", "C">>, <<"d", "D">>, <<"e", "E">>,
       <<"f", "F">>, <<"g", "G">>, <<"h", "H">>, <<"i", "I">>, <<"j", "J">>,
       <<"k", "K">>, <<"l", "L">>, <<"m", "M">>, <<"n", "N">>, <<"o", "O">>,
       <<"p", "P">>, <<"q", "Q">>, <<"r", "R">>, <<"s", "S">>, <<"t", "T">>,
       <<"u", "U">>, <<"v", "V">>, <<"w", "W">>, <<"x", "X">>, <<"y", "Y">>,
       <<"z", "Z">> >>

C19_AllLetters ==
    UNION {{C19_Letters[n][1], C19_Letters[n][2]} : n \in DOMAIN C19_Letters}

\* whether each character of s is a letter
C19_IsWord(s) == \A i \in 1..Len(s) : s[i] \in C19_AllLetters

\* a language of two or three letters, alone or with a region of two letters
C19_IsTag(l) ==
    LET dash == {i \in 1..Len(l) : l[i] = "-"}
    IN  \/ dash = {} /\ Len(l) \in {2, 3} /\ C19_IsWord(l)
        \/ \E i \in dash :
             /\ dash = {i}
             /\ i \in {3, 4}
             /\ Len(l) = i + 2
             /\ C19_IsWord(SubSeq(l, 1, i - 1))
             /\ C19_IsWord(SubSeq(l, i + 1, Len(l)))

\* the canonical spelling of a tag: the language in lower case, the region
\* in upper case
C19_Normalize(l) ==
    LET dash   == {i \in 1..Len(l) : l[i] = "-"}
        region == \E d \in dash : TRUE
        cut    == IF region THEN CHOOSE d \in dash : TRUE ELSE Len(l) + 1
        pair(ch) == CHOOSE n \in DOMAIN C19_Letters :
                        ch \in {C19_Letters[n][1], C19_Letters[n][2]}
    IN  [i \in 1..Len(l) |->
            IF i < cut THEN C19_Letters[pair(l[i])][1]
            ELSE IF i = cut THEN "-"
            ELSE C19_Letters[pair(l[i])][2]]

C19_KeysAreTagsAsSpelled ==
    /\ \A l \in DOMAIN iLocalizer : C19_IsTag(l)
    /\ \A d \in loaded : d.lang \in DOMAIN iLocalizer
    /\ regPc = "walk" =>
         /\ lang \in DOMAIN iLocalizer
         /\ \E i \in 1..(Len(fileInfos[fileIdx].name) - Len(lang) - 1) :
              SubSeq(fileInfos[fileIdx].name, i, i + Len(lang) + 1)
                  = <<".">> \o lang \o <<".">>

\* the two spellings of one locale are two entries, each with its messages
C19_Witness ==
    /\ {sEnUS, sEnus} \subseteq DOMAIN iLocalizer
    /\ idG \in DOMAIN iLocalizer[sEnUS]
    /\ idK \in DOMAIN iLocalizer[sEnus]
    /\ idG \notin DOMAIN iLocalizer[sEnus]

\* C19 as stated: every key is a normalised tag, so that the spellings of
\* one locale are one entry.
C19_Original ==
    /\ \A l \in DOMAIN iLocalizer : C19_IsTag(l) /\ l = C19_Normalize(l)
    /\ \A l1, l2 \in DOMAIN iLocalizer :
         C19_Normalize(l1) = C19_Normalize(l2) => l1 = l2

(***************************************************************************)
(* C20. Under fair scheduling every Translate call on a message of the     *)
(* catalog finishes, with a string or with the fatal end of the process.   *)
(* A call that runs can take its next step unless it waits at the guard    *)
(* of its own message while another call compiles that message, and that   *)
(* call can take its step: calls on other messages never hold it up. So    *)
(* when no further calls arrive, all the calls under way get to their      *)
(* return, or the process ends.                                            *)
(***************************************************************************)
C20_CanStep(c) ==
    CASE c.pc = "once" -> ENABLED OnceDo(c)
      [] c.pc = "compiling" -> ENABLED Compile(c)
      [] c.pc = "exec" -> ENABLED Exec(c)
      [] OTHER -> TRUE

C20_WaitsForCompiler(c) ==
    /\ c.pc = "once"
    /\ MessageOf(c).parseOnce = "running"
    /\ \E d \in CallsOn(c.lang, c.messageId) : d.pc = "compiling" /\ ENABLED Compile(d)

C20_Finished ==
    \/ exit.kind # "running"
    \/ \A c \in BagToSet(callers) : c.pc = "done"

C20_NoNewCall == BagCardinality(callers') <= BagCardinality(callers)

C20_CallsFinish ==
    /\ [](exit.kind = "running" =>
            \A c \in BagToSet(callers) : C20_CanStep(c) \/ C20_WaitsForCompiler(c))
    /\ (<>[][C20_NoNewCall]_vars) => <>[]C20_Finished

\* a call waits at the guard of a message that another call compiles
C20_Witness ==
    /\ exit.kind = "running"
    /\ \E c, d \in BagToSet(callers) :
         /\ c.pc = "once"
         /\ d.pc = "compiling"
         /\ c.lang = d.lang
         /\ c.messageId = d.messageId

(***************************************************************************)
(* C21 (as amended). RegisterI18n does not reset the catalog: while a      *)
(* later call loads, and when it ends, every locale and message the        *)
(* catalog held when the call was made is still there with its text. A     *)
(* call whose directory holds, for some locale, a string leaf under an id  *)
(* loaded before never completes: the process ends with a fatal error.     *)
(* The error is the duplicate-id error when the walk gets to a non-empty   *)
(* leaf of such an id, and the old message is kept; another fatal error    *)
(* (an empty or unsupported leaf, a failing file) may end the process      *)
(* before that.                                                            *)
(***************************************************************************)
\* the (locale, id) pairs of the non-empty string leaves of the locale files
\* listed
C21_Yielded ==
    UNION {{<<Split(fileInfos[i].name, ".")[2], p[1]>> :
               p \in {q \in Flatten(sEmpty, fileInfos[i].raw) : q[2] # sEmpty}} :
             i \in {j \in DOMAIN fileInfos :
                      /\ Len(Split(fileInfos[j].name, ".")) = 3
                      /\ fileInfos[j].status = "ok"}}

\* whether the id was in the catalog when the call was made
C21_HeldAtCall(l, id) == l \in DOMAIN atCall /\ id \in DOMAIN atCall[l]

C21_SecondCallAccumulates ==
    /\ [](/\ regPc \in {"loop", "walk"} =>
               \A l \in DOMAIN atCall :
                   /\ l \in DOMAIN iLocalizer
                   /\ \A id \in DOMAIN atCall[l] :
                        /\ id \in DOMAIN iLocalizer[l]
                        /\ iLocalizer[l][id].Data = atCall[l][id]
          /\ (/\ regPc = "walk"
              /\ visit.t = "str"
              /\ visit.data # sEmpty
              /\ C21_HeldAtCall(visit.lang, visit.id)) =>
                 /\ exit.kind = "fatal"
                 /\ exit.err.what = "duplicate"
                 /\ exit.err.key = visit.id)
    /\ [][(regPc = "loop" /\ regPc' = "done") =>
             \A p \in C21_Yielded : ~C21_HeldAtCall(p[1], p[2])]_vars

\* the second call read a file with an id of the first call and ended with
\* the duplicate-id error, the message of the first call in place
C21_Witness ==
    /\ registered = 2
    /\ exit.kind = "fatal"
    /\ exit.err.what = "duplicate"
    /\ C21_HeldAtCall(visit.lang, visit.id)
    /\ iLocalizer[visit.lang][visit.id].Data = atCall[visit.lang][visit.id]
    /\ iLocalizer[visit.lang][visit.id].parseOnce = "done"

\* C21 as stated: a later call whose directory yields an id loaded before
\* ends in the duplicate-id error.
C21_Original ==
    (/\ registered >= 2
     /\ regPc \in {"loop", "walk"}
     /\ exit.kind # "running"
     /\ \E p \in C21_Yielded : C21_HeldAtCall(p[1], p[2])) =>
        exit.err.what = "duplicate"

====
